---- MODULE Spec2Model ----
\* Token registry of contracts/substrate/AssetHubNFT.rs (the cross-chain-capable
\* variant): ownership, balances, owned-token index, approvals, metadata and the
\* simulated XCM hand-off, one action per contract message; and the basic registry
\* of contracts/UniqueNetworkNFT.rs on the fields the two have in common.
EXTENDS Integers, Sequences, FiniteSets, TLC

\* ---------------------------------------------------------------- bounds
\* Mints and administrator receives are allowed while next_token_id <= MaxTokens.
MaxTokens == 2
\* The single-call specification (the same five messages) allows them while
\* next_token_id <= MaxCallTokens.
MaxCallTokens == 1
\* The index specification (mint_token, transfer and approve only) allows mints
\* while next_token_id <= MaxIndexTokens.
MaxIndexTokens == 3
\* The metadata specification (the five messages, with varied creation arguments)
\* allows mints and administrator receives while next_token_id <= MaxMetaTokens.
MaxMetaTokens == 2
\* The basic registry (contracts/UniqueNetworkNFT.rs) allows mints while
\* next_token_id <= MaxBasicTokens.
MaxBasicTokens == 2
\* The minimal registry (contracts/minimal_nft) is modelled with its counter type
\* scaled down: MinimalCountMax stands for u32::MAX as the largest token_count, so
\* that the counter can reach the maximum of its type.
MinimalCountMax == 3

\* Stands for u32::MAX, the largest balance and token ID. TLC's integers are 32-bit
\* signed, so the model uses their largest value; only wrap-around at it matters.
U32_MAX == 2147483647

\* ---------------------------------------------------------------- inputs
Accounts == {"alice", "bob", "charlie"}
\* The account that constructs the registry (the default caller of the tests).
Deployers == {"alice"}
\* The accounts that call mint_token (the caller only becomes metadata.creator).
Minters == {"bob"}
\* The delegates named in approve calls of the index specification.
IndexDelegates == {"charlie"}
Uris == {"ipfs://QmMetadata"}
Names == {"3D Cube"}
ModelTypes == {"box"}
Properties == {"{}"}
ParaIds == {2004}
DestAccounts == {"0x00"}
Timestamps == {0}
\* The creation inputs of the metadata specification: two calls that differ in the
\* block timestamp and in every argument; and the one destination of its moves.
MetaArgs ==
    { [now |-> 0, metadata_uri |-> "ipfs://QmMetadata", name |-> "3D Cube",
       model_type |-> "box", properties |-> "{}", origin_chain_id |-> 2004],
      [now |-> 1, metadata_uri |-> "ipfs://QmOther", name |-> "Ball",
       model_type |-> "sphere", properties |-> "{r:1}", origin_chain_id |-> 1000] }
MetaMoveTargets == {"charlie"}

\* ---------------------------------------------------------------- state
VARIABLES
    next_token_id,   \* u32 counter
    token_owner,     \* StorageHashMap<u32, AccountId>
    token_metadata,  \* StorageHashMap<u32, NFTMetadata>
    balances,        \* StorageHashMap<AccountId, u32>
    owned_tokens,    \* StorageHashMap<AccountId, Vec<u32>>
    approvals,       \* StorageHashMap<u32, AccountId>
    admin,           \* AccountId
    call,            \* the message last executed: [op, path, outcome]
    ret,             \* its return value
    emitted,         \* the events it emitted, in order
    created          \* the IDs returned by successful creations, in call order

tables == <<token_owner, token_metadata, balances, owned_tokens, approvals>>
storage == <<next_token_id, token_owner, token_metadata, balances, owned_tokens, approvals, admin>>
vars == <<next_token_id, token_owner, token_metadata, balances, owned_tokens, approvals,
          admin, call, ret, emitted, created>>

\* ---------------------------------------------------------------- helpers
\* HashMap::insert(k, v)
Insert(m, k, v) == [x \in (DOMAIN m) \cup {k} |-> IF x = k THEN v ELSE m[x]]

\* HashMap::remove(k)
Remove(m, k) == [x \in (DOMAIN m) \ {k} |-> m[x]]

\* Mutant of Retain: Vec::swap_remove at the token's position (the last element
\* takes the removed one's place).
Retain_SwapRemove(s, token_id) ==
    IF \A i \in 1 .. Len(s) : s[i] # token_id THEN s
    ELSE LET p == CHOOSE i \in 1 .. Len(s) : s[i] = token_id
             moved == [s EXCEPT ![p] = s[Len(s)]]
         IN SubSeq(moved, 1, Len(s) - 1)

\* Vec::retain(|&t| t != token_id)
RECURSIVE Retain(_, _)
Retain(s, token_id) ==
    IF s = <<>> THEN <<>>
    ELSE IF Head(s) = token_id THEN Retain(Tail(s), token_id)
         ELSE <<Head(s)>> \o Retain(Tail(s), token_id)

\* u32 `+= 1` and `-= 1` as a build without overflow checks computes them
Add1(b) == IF b = U32_MAX THEN 0 ELSE b + 1
Sub1(b) == IF b = 0 THEN U32_MAX ELSE b - 1

\* ---------------------------------------------------------------- queries
\* Mutant of owner_of: a missing token is reported as held by the administrator.
owner_of_DefaultAdmin(token_id) ==
    IF token_id \in DOMAIN token_owner THEN <<token_owner[token_id]>> ELSE <<admin>>

\* Option<AccountId>: <<>> is None, <<o>> is Some(o).
owner_of(token_id) ==
    IF token_id \in DOMAIN token_owner THEN <<token_owner[token_id]>> ELSE <<>>

balance_of(owner) == IF owner \in DOMAIN balances THEN balances[owner] ELSE 0

tokens_of_owner(owner) == IF owner \in DOMAIN owned_tokens THEN owned_tokens[owner] ELSE <<>>

is_approved(operator, token_id) ==
    IF token_id \in DOMAIN approvals THEN approvals[token_id] = operator ELSE FALSE

\* ---------------------------------------------------------------- events
NFTMinted(owner, token_id, metadata_uri, name) ==
    [event |-> "NFTMinted", owner |-> owner, token_id |-> token_id,
     metadata_uri |-> metadata_uri, name |-> name]

TransferEvent(from, to, token_id) ==
    [event |-> "Transfer", from |-> from, to |-> to, token_id |-> token_id]

XCMTransfer(from, token_id, dest_para_id, dest_account) ==
    [event |-> "XCMTransfer", from |-> from, token_id |-> token_id,
     dest_para_id |-> dest_para_id, dest_account |-> dest_account]

\* Option<T>
None == <<>>
Some(x) == <<x>>

\* Mutant of OnlyAdmin: the test is inverted.
OnlyAdmin_Inverted(caller) == caller # admin

\* `caller != self.admin` is false: the caller may use the XCM messages.
OnlyAdmin(caller) == caller = admin

\* ---------------------------------------------------------------- construction
\* Mutant of Init: the counter starts from 0.
Init_FromZero ==
    /\ next_token_id = 0
    /\ token_owner = <<>>
    /\ token_metadata = <<>>
    /\ balances = <<>>
    /\ owned_tokens = <<>>
    /\ approvals = <<>>
    /\ admin \in Deployers
    /\ call = [op |-> "new", path |-> "done", outcome |-> "returned"]
    /\ ret = 0
    /\ emitted = <<>>
    /\ created = <<>>

\* AssetHubNFT::new: counter 1, every table empty, admin = the constructing caller.
Init ==
    /\ next_token_id = 1
    /\ token_owner = <<>>
    /\ token_metadata = <<>>
    /\ balances = <<>>
    /\ owned_tokens = <<>>
    /\ approvals = <<>>
    /\ admin \in Deployers
    /\ call = [op |-> "new", path |-> "done", outcome |-> "returned"]
    /\ ret = 0
    /\ emitted = <<>>
    /\ created = <<>>

\* A message that returns `value` early, on the path named `path`, without touching
\* storage or emitting anything.
Reject(op, path, value) ==
    /\ call' = [op |-> op, path |-> path, outcome |-> "returned"]
    /\ ret' = value
    /\ emitted' = <<>>
    /\ UNCHANGED <<storage, created>>

\* A message whose u32 arithmetic overflowed in a build with overflow checks: the
\* call panics and the runtime discards every change and event of the call.
Trap(op, path, value) ==
    /\ call' = [op |-> op, path |-> path, outcome |-> "trapped"]
    /\ ret' = value
    /\ emitted' = <<>>
    /\ UNCHANGED <<storage, created>>

\* The outcomes of a call that reaches its arithmetic: where it overflows, the build
\* decides between a panic and a wrapped result.
Outcomes(overflows) == IF overflows THEN {"trapped", "wrapped"} ELSE {"returned"}

\* ---------------------------------------------------------------- minting
\* The storage updates shared by mint_token and receive_xcm_nft: owner entry,
\* metadata entry, balance += 1, push on the owner's list, counter += 1, the
\* NFTMinted and Transfer events, and the new ID as return value.
\* Mutant of Create: the new owner's balance is not credited.
Create_BalanceNotCredited(op, caller, owner, metadata, name) ==
    LET token_id == next_token_id
        owned == IF owner \in DOMAIN owned_tokens THEN owned_tokens[owner] ELSE <<>>
    IN
        /\ call' = [op |-> op, path |-> "done", outcome |-> "returned"]
        /\ token_owner' = Insert(token_owner, token_id, owner)
        /\ token_metadata' = Insert(token_metadata, token_id, metadata)
        /\ owned_tokens' = Insert(owned_tokens, owner, Append(owned, token_id))
        /\ next_token_id' = Add1(next_token_id)
        /\ emitted' = << NFTMinted(owner, token_id, metadata.metadata_uri, name),
                         TransferEvent(None, Some(owner), token_id) >>
        /\ ret' = token_id
        /\ created' = Append(created, token_id)
        /\ UNCHANGED <<balances, approvals, admin>>

Create(op, caller, owner, metadata, name) ==
    LET token_id == next_token_id
        balance == IF owner \in DOMAIN balances THEN balances[owner] ELSE 0
        owned == IF owner \in DOMAIN owned_tokens THEN owned_tokens[owner] ELSE <<>>
        overflows == balance = U32_MAX \/ next_token_id = U32_MAX
    IN \E outcome \in Outcomes(overflows) :
        IF outcome = "trapped" THEN Trap(op, "done", 0)
        ELSE
            /\ call' = [op |-> op, path |-> "done", outcome |-> outcome]
            /\ token_owner' = Insert(token_owner, token_id, owner)
            /\ token_metadata' = Insert(token_metadata, token_id, metadata)
            /\ balances' = Insert(balances, owner, Add1(balance))
            /\ owned_tokens' = Insert(owned_tokens, owner, Append(owned, token_id))
            /\ next_token_id' = Add1(next_token_id)
            /\ emitted' = << NFTMinted(owner, token_id, metadata.metadata_uri, name),
                             TransferEvent(None, Some(owner), token_id) >>
            /\ ret' = token_id
            /\ created' = Append(created, token_id)
            /\ UNCHANGED <<approvals, admin>>

\* Mutant of mint_token: the destination is recorded as creator.
mint_token_CreatorIsOwner(caller, now, owner, metadata_uri, name, model_type, properties) ==
    Create("mint_token", caller, owner,
           [metadata_uri |-> metadata_uri, creator |-> owner, created_at |-> now,
            model_type |-> model_type, origin_chain_id |-> None,
            xcm_status |-> "NotStarted", properties |-> properties],
           name)

mint_token(caller, now, owner, metadata_uri, name, model_type, properties) ==
    Create("mint_token", caller, owner,
           [metadata_uri |-> metadata_uri, creator |-> caller, created_at |-> now,
            model_type |-> model_type, origin_chain_id |-> None,
            xcm_status |-> "NotStarted", properties |-> properties],
           name)

\* ---------------------------------------------------------------- transfer
\* The bookkeeping that moves token_id from `owner` to `to`: retain on the old
\* list, balance -= 1, balance += 1, push on the new list, owner entry.
\* Mutant of MoveOwned: the token is not taken off the old owner's list.
MoveOwned_NoRetain(owner, to, token_id) ==
    LET new_owned == IF to \in DOMAIN owned_tokens THEN owned_tokens[to] ELSE <<>>
    IN Insert(owned_tokens, to, Append(new_owned, token_id))

MoveOwned(owner, to, token_id) ==
    LET owned1 == IF owner \in DOMAIN owned_tokens
                  THEN Insert(owned_tokens, owner, Retain(owned_tokens[owner], token_id))
                  ELSE owned_tokens
        new_owned == IF to \in DOMAIN owned1 THEN owned1[to] ELSE <<>>
    IN Insert(owned1, to, Append(new_owned, token_id))

\* Mutant of MoveBalance: the old owner's balance is not decremented.
MoveBalance_NoDecrement(owner, to) ==
    Insert(balances, to, Add1(IF to \in DOMAIN balances THEN balances[to] ELSE 0))

\* Mutant of MoveBalance: the receiver's balance is read before the decrement.
MoveBalance_ReadBeforeDecrement(owner, to) ==
    LET to_balance == IF to \in DOMAIN balances THEN balances[to] ELSE 0
        bal1 == IF owner \in DOMAIN balances
                THEN Insert(balances, owner, Sub1(balances[owner]))
                ELSE balances
    IN Insert(bal1, to, Add1(to_balance))

MoveBalance(owner, to) ==
    LET bal1 == IF owner \in DOMAIN balances
                THEN Insert(balances, owner, Sub1(balances[owner]))
                ELSE balances
        to_balance == IF to \in DOMAIN bal1 THEN bal1[to] ELSE 0
    IN Insert(bal1, to, Add1(to_balance))

MoveOverflows(owner, to) ==
    \/ owner \in DOMAIN balances /\ balances[owner] = 0
    \/ owner # to /\ balance_of(to) = U32_MAX

\* Mutant of MayTransfer: the administrator may move any token.
MayTransfer_AdminToo(caller, owner, token_id) ==
    owner = caller \/ is_approved(caller, token_id) \/ caller = admin

\* `owner != caller && !self.is_approved(caller, token_id)` is false.
MayTransfer(caller, owner, token_id) == owner = caller \/ is_approved(caller, token_id)

\* Mutant of ClearApproval: the approval entry survives the transfer.
ClearApproval_Kept(token_id) == approvals

\* self.approvals.remove(&token_id)
ClearApproval(token_id) == Remove(approvals, token_id)

\* Mutant of transfer: the Transfer event names the caller as `from`.
transfer_EventFromCaller(caller, to, token_id) ==
    IF owner_of(token_id) = None
    THEN Reject("transfer", "no_token", FALSE)
    ELSE LET owner == owner_of(token_id)[1] IN
        IF ~MayTransfer(caller, owner, token_id)
        THEN Reject("transfer", "not_authorized", FALSE)
        ELSE \E outcome \in Outcomes(MoveOverflows(owner, to)) :
            LET path == IF owner = caller THEN "by_owner" ELSE "by_delegate" IN
            IF outcome = "trapped" THEN Trap("transfer", path, FALSE)
            ELSE
                /\ call' = [op |-> "transfer", path |-> path, outcome |-> outcome]
                /\ emitted' = << TransferEvent(Some(caller), Some(to), token_id) >>
                /\ ret' = TRUE
                /\ owned_tokens' = MoveOwned(owner, to, token_id)
                /\ balances' = MoveBalance(owner, to)
                /\ token_owner' = Insert(token_owner, token_id, to)
                /\ approvals' = ClearApproval(token_id)
                /\ UNCHANGED <<next_token_id, token_metadata, admin, created>>

transfer(caller, to, token_id) ==
    IF owner_of(token_id) = None
    THEN Reject("transfer", "no_token", FALSE)
    ELSE LET owner == owner_of(token_id)[1] IN
        IF ~MayTransfer(caller, owner, token_id)
        THEN Reject("transfer", "not_authorized", FALSE)
        ELSE \E outcome \in Outcomes(MoveOverflows(owner, to)) :
            LET path == IF owner = caller THEN "by_owner" ELSE "by_delegate" IN
            IF outcome = "trapped" THEN Trap("transfer", path, FALSE)
            ELSE
                /\ call' = [op |-> "transfer", path |-> path, outcome |-> outcome]
                /\ emitted' = << TransferEvent(Some(owner), Some(to), token_id) >>
                /\ ret' = TRUE
                /\ owned_tokens' = MoveOwned(owner, to, token_id)
                /\ balances' = MoveBalance(owner, to)
                /\ token_owner' = Insert(token_owner, token_id, to)
                /\ approvals' = ClearApproval(token_id)
                /\ UNCHANGED <<next_token_id, token_metadata, admin, created>>

\* ---------------------------------------------------------------- approval
\* Mutant of approve: the approved delegate may re-delegate the token.
approve_ByDelegate(caller, to, token_id) ==
    IF /\ token_id \in DOMAIN token_owner
       /\ (token_owner[token_id] = caller \/ is_approved(caller, token_id))
    THEN
        /\ call' = [op |-> "approve", path |-> "done", outcome |-> "returned"]
        /\ approvals' = Insert(approvals, token_id, to)
        /\ ret' = TRUE
        /\ emitted' = <<>>
        /\ UNCHANGED <<next_token_id, token_owner, token_metadata, balances, owned_tokens,
                       admin, created>>
    ELSE Reject("approve", "rejected", FALSE)

approve(caller, to, token_id) ==
    IF token_id \in DOMAIN token_owner /\ token_owner[token_id] = caller
    THEN
        /\ call' = [op |-> "approve", path |-> "done", outcome |-> "returned"]
        /\ approvals' = Insert(approvals, token_id, to)
        /\ ret' = TRUE
        /\ emitted' = <<>>
        /\ UNCHANGED <<next_token_id, token_owner, token_metadata, balances, owned_tokens,
                       admin, created>>
    ELSE Reject("approve", "rejected", FALSE)

\* ---------------------------------------------------------------- XCM simulation
\* Mutant of MarkInProgress: the status is left as it was.
MarkInProgress_Skipped(token_id) == token_metadata

\* Mutant of MarkInProgress: the status written is Failed.
MarkInProgress_Failed(token_id) ==
    IF token_id \in DOMAIN token_metadata
    THEN Insert(token_metadata, token_id,
                [token_metadata[token_id] EXCEPT !.xcm_status = "Failed"])
    ELSE token_metadata

\* Mutant of MarkInProgress: the record is rebuilt with the administrator as creator.
MarkInProgress_ResetsCreator(token_id) ==
    IF token_id \in DOMAIN token_metadata
    THEN Insert(token_metadata, token_id,
                [token_metadata[token_id] EXCEPT !.xcm_status = "InProgress",
                                                 !.creator = admin])
    ELSE token_metadata

\* `if let Some(mut metadata) = ... { metadata.xcm_status = InProgress; insert }`
MarkInProgress(token_id) ==
    IF token_id \in DOMAIN token_metadata
    THEN Insert(token_metadata, token_id,
                [token_metadata[token_id] EXCEPT !.xcm_status = "InProgress"])
    ELSE token_metadata

initiate_xcm_transfer(caller, token_id, dest_para_id, dest_account) ==
    IF ~OnlyAdmin(caller)
    THEN Reject("initiate_xcm_transfer", "not_admin", FALSE)
    ELSE IF owner_of(token_id) = None
    THEN Reject("initiate_xcm_transfer", "no_token", FALSE)
    ELSE LET owner == owner_of(token_id)[1] IN
        \E outcome \in Outcomes(MoveOverflows(owner, admin)) :
            IF outcome = "trapped" THEN Trap("initiate_xcm_transfer", "done", FALSE)
            ELSE
                /\ call' = [op |-> "initiate_xcm_transfer", path |-> "done",
                            outcome |-> outcome]
                /\ token_metadata' = MarkInProgress(token_id)
                /\ emitted' = << XCMTransfer(owner, token_id, dest_para_id, dest_account) >>
                /\ owned_tokens' = MoveOwned(owner, admin, token_id)
                /\ balances' = MoveBalance(owner, admin)
                /\ token_owner' = Insert(token_owner, token_id, admin)
                /\ ret' = TRUE
                /\ UNCHANGED <<next_token_id, approvals, admin, created>>

\* Mutant of receive_xcm_nft: the counter is advanced before the caller is checked.
receive_xcm_nft_ConsumesId(caller, now, to, metadata_uri, name, model_type, properties, origin_chain_id) ==
    IF ~OnlyAdmin(caller)
    THEN /\ call' = [op |-> "receive_xcm_nft", path |-> "not_admin", outcome |-> "returned"]
         /\ ret' = 0
         /\ emitted' = <<>>
         /\ next_token_id' = Add1(next_token_id)
         /\ UNCHANGED <<tables, admin, created>>
    ELSE Create("receive_xcm_nft", caller, to,
                [metadata_uri |-> metadata_uri, creator |-> admin, created_at |-> now,
                 model_type |-> model_type, origin_chain_id |-> Some(origin_chain_id),
                 xcm_status |-> "Completed", properties |-> properties],
                name)

\* Mutant of receive_xcm_nft: the token is recorded as one minted locally.
receive_xcm_nft_AsLocalMint(caller, now, to, metadata_uri, name, model_type, properties, origin_chain_id) ==
    IF ~OnlyAdmin(caller)
    THEN Reject("receive_xcm_nft", "not_admin", 0)
    ELSE Create("receive_xcm_nft", caller, to,
                [metadata_uri |-> metadata_uri, creator |-> admin, created_at |-> now,
                 model_type |-> model_type, origin_chain_id |-> None,
                 xcm_status |-> "NotStarted", properties |-> properties],
                name)

\* Mutant of receive_xcm_nft: the caller is not checked.
receive_xcm_nft_Unrestricted(caller, now, to, metadata_uri, name, model_type, properties, origin_chain_id) ==
    Create("receive_xcm_nft", caller, to,
           [metadata_uri |-> metadata_uri, creator |-> admin, created_at |-> now,
            model_type |-> model_type, origin_chain_id |-> Some(origin_chain_id),
            xcm_status |-> "Completed", properties |-> properties],
           name)

receive_xcm_nft(caller, now, to, metadata_uri, name, model_type, properties, origin_chain_id) ==
    IF ~OnlyAdmin(caller)
    THEN Reject("receive_xcm_nft", "not_admin", 0)
    ELSE Create("receive_xcm_nft", caller, to,
                [metadata_uri |-> metadata_uri, creator |-> admin, created_at |-> now,
                 model_type |-> model_type, origin_chain_id |-> Some(origin_chain_id),
                 xcm_status |-> "Completed", properties |-> properties],
                name)

\* ---------------------------------------------------------------- next-state relation
\* Token IDs offered as arguments: 0, every ID that can exist and one past them.
TokenIds == 0 .. MaxTokens + 1

MintStep ==
    \E caller \in Minters, now \in Timestamps, owner \in Accounts, uri \in Uris,
       name \in Names, model_type \in ModelTypes, properties \in Properties :
        /\ next_token_id <= MaxTokens
        /\ mint_token(caller, now, owner, uri, name, model_type, properties)

TransferStep ==
    \E caller \in Accounts, to \in Accounts, token_id \in TokenIds :
        transfer(caller, to, token_id)

ApproveStep ==
    \E caller \in Accounts, to \in Accounts, token_id \in TokenIds :
        approve(caller, to, token_id)

InitiateStep ==
    \E caller \in Accounts, token_id \in TokenIds, dest_para_id \in ParaIds,
       dest_account \in DestAccounts :
        initiate_xcm_transfer(caller, token_id, dest_para_id, dest_account)

ReceiveStep ==
    \E caller \in Accounts, now \in Timestamps, to \in Accounts, uri \in Uris,
       name \in Names, model_type \in ModelTypes, properties \in Properties,
       origin_chain_id \in ParaIds :
        /\ caller = admin => next_token_id <= MaxTokens
        /\ receive_xcm_nft(caller, now, to, uri, name, model_type, properties, origin_chain_id)

Next == MintStep \/ TransferStep \/ ApproveStep \/ InitiateStep \/ ReceiveStep

Spec == Init /\ [][Next]_vars

\* The five messages on a registry of at most MaxCallTokens tokens: the
\* specification of the claims about what one call does.
CallTokenIds == 0 .. MaxCallTokens + 1

MintCallStep ==
    \E caller \in Minters, now \in Timestamps, owner \in Accounts, uri \in Uris,
       name \in Names, model_type \in ModelTypes, properties \in Properties :
        /\ next_token_id <= MaxCallTokens
        /\ mint_token(caller, now, owner, uri, name, model_type, properties)

TransferCallStep ==
    \E caller \in Accounts, to \in Accounts, token_id \in CallTokenIds :
        transfer(caller, to, token_id)

ApproveCallStep ==
    \E caller \in Accounts, to \in Accounts, token_id \in CallTokenIds :
        approve(caller, to, token_id)

InitiateCallStep ==
    \E caller \in Accounts, token_id \in CallTokenIds, dest_para_id \in ParaIds,
       dest_account \in DestAccounts :
        initiate_xcm_transfer(caller, token_id, dest_para_id, dest_account)

ReceiveCallStep ==
    \E caller \in Accounts, now \in Timestamps, to \in Accounts, uri \in Uris,
       name \in Names, model_type \in ModelTypes, properties \in Properties,
       origin_chain_id \in ParaIds :
        /\ caller = admin => next_token_id <= MaxCallTokens
        /\ receive_xcm_nft(caller, now, to, uri, name, model_type, properties, origin_chain_id)

NextCalls ==
    MintCallStep \/ TransferCallStep \/ ApproveCallStep \/ InitiateCallStep \/ ReceiveCallStep

SpecCalls == Init /\ [][NextCalls]_vars

\* The registry under mint_token, transfer and approve alone, with one more token:
\* the specification of the claims about the order of the owned-token lists.
IndexTokenIds == 1 .. MaxIndexTokens

MintIndexStep ==
    \E caller \in Minters, now \in Timestamps, owner \in Accounts, uri \in Uris,
       name \in Names, model_type \in ModelTypes, properties \in Properties :
        /\ next_token_id <= MaxIndexTokens
        /\ mint_token(caller, now, owner, uri, name, model_type, properties)

TransferIndexStep ==
    \E caller \in Accounts, to \in Accounts, token_id \in IndexTokenIds :
        transfer(caller, to, token_id)

ApproveIndexStep ==
    \E caller \in Accounts, to \in IndexDelegates, token_id \in IndexTokenIds :
        approve(caller, to, token_id)

NextIndex == MintIndexStep \/ TransferIndexStep \/ ApproveIndexStep

SpecIndex == Init /\ [][NextIndex]_vars

\* The five messages with creation arguments that differ from token to token: the
\* specification of the claims about the metadata records.
MetaTokenIds == 1 .. MaxMetaTokens

MintMetaStep ==
    \E caller \in Accounts, owner \in Accounts, args \in MetaArgs :
        /\ next_token_id <= MaxMetaTokens
        /\ mint_token(caller, args.now, owner, args.metadata_uri, args.name, args.model_type,
                      args.properties)

TransferMetaStep ==
    \E caller \in Accounts, to \in MetaMoveTargets, token_id \in MetaTokenIds :
        transfer(caller, to, token_id)

ApproveMetaStep ==
    \E caller \in Accounts, to \in MetaMoveTargets, token_id \in MetaTokenIds :
        approve(caller, to, token_id)

InitiateMetaStep ==
    \E caller \in Accounts, token_id \in MetaTokenIds, dest_para_id \in ParaIds,
       dest_account \in DestAccounts :
        initiate_xcm_transfer(caller, token_id, dest_para_id, dest_account)

ReceiveMetaStep ==
    \E caller \in Accounts, to \in Accounts, args \in MetaArgs :
        /\ caller = admin => next_token_id <= MaxMetaTokens
        /\ receive_xcm_nft(caller, args.now, to, args.metadata_uri, args.name, args.model_type,
                           args.properties, args.origin_chain_id)

NextMeta ==
    MintMetaStep \/ TransferMetaStep \/ ApproveMetaStep \/ InitiateMetaStep \/ ReceiveMetaStep

SpecMeta == Init /\ [][NextMeta]_vars

\* ================================================================ basic registry
\* contracts/UniqueNetworkNFT.rs (VRGenesisNFT): the counter, token_owner,
\* token_metadata and balances only, and transfer by the owner only. Its fields are
\* the variables of the same names; owned_tokens, approvals and admin, which it
\* does not have, stay as constructed.
VRGenesisNFT_new ==
    /\ next_token_id = 1
    /\ token_owner = <<>>
    /\ token_metadata = <<>>
    /\ balances = <<>>
    /\ owned_tokens = <<>>
    /\ approvals = <<>>
    /\ admin = None
    /\ call = [op |-> "new", path |-> "done", outcome |-> "returned"]
    /\ ret = 0
    /\ emitted = <<>>
    /\ created = <<>>

VRGenesisNFT_NFTMinted(owner, token_id, metadata_uri) ==
    [event |-> "NFTMinted", owner |-> owner, token_id |-> token_id,
     metadata_uri |-> metadata_uri]

VRGenesisNFT_mint_token(caller, now, owner, metadata_uri) ==
    LET token_id == next_token_id
        balance == IF owner \in DOMAIN balances THEN balances[owner] ELSE 0
        overflows == balance = U32_MAX \/ next_token_id = U32_MAX
    IN \E outcome \in Outcomes(overflows) :
        IF outcome = "trapped" THEN Trap("mint_token", "done", 0)
        ELSE
            /\ call' = [op |-> "mint_token", path |-> "done", outcome |-> outcome]
            /\ token_owner' = Insert(token_owner, token_id, owner)
            /\ token_metadata' = Insert(token_metadata, token_id,
                                        [metadata_uri |-> metadata_uri, creator |-> caller,
                                         created_at |-> now])
            /\ balances' = Insert(balances, owner, Add1(balance))
            /\ next_token_id' = Add1(next_token_id)
            /\ emitted' = << VRGenesisNFT_NFTMinted(owner, token_id, metadata_uri),
                             TransferEvent(None, Some(owner), token_id) >>
            /\ ret' = token_id
            /\ created' = Append(created, token_id)
            /\ UNCHANGED <<owned_tokens, approvals, admin>>

\* Mutant of VRGenesisNFT_IsOwner: any caller passes for an existing token.
VRGenesisNFT_IsOwner_Anyone(caller, token_id) == token_id \in DOMAIN token_owner

\* `if let Some(owner) = ... { if *owner != caller { return false } }` passes.
VRGenesisNFT_IsOwner(caller, token_id) ==
    token_id \in DOMAIN token_owner /\ token_owner[token_id] = caller

VRGenesisNFT_transfer(caller, to, token_id) ==
    IF token_id \notin DOMAIN token_owner
    THEN Reject("transfer", "no_token", FALSE)
    ELSE IF ~VRGenesisNFT_IsOwner(caller, token_id)
    THEN Reject("transfer", "not_owner", FALSE)
    ELSE \E outcome \in Outcomes(MoveOverflows(caller, to)) :
        IF outcome = "trapped" THEN Trap("transfer", "by_owner", FALSE)
        ELSE
            /\ call' = [op |-> "transfer", path |-> "by_owner", outcome |-> outcome]
            /\ emitted' = << TransferEvent(Some(caller), Some(to), token_id) >>
            /\ ret' = TRUE
            /\ balances' = MoveBalance(caller, to)
            /\ token_owner' = Insert(token_owner, token_id, to)
            /\ UNCHANGED <<next_token_id, token_metadata, owned_tokens, approvals, admin,
                           created>>

BasicTokenIds == 0 .. MaxBasicTokens + 1

MintBasicStep ==
    \E caller \in Accounts, now \in Timestamps, owner \in Accounts, uri \in Uris :
        /\ next_token_id <= MaxBasicTokens
        /\ VRGenesisNFT_mint_token(caller, now, owner, uri)

TransferBasicStep ==
    \E caller \in Accounts, to \in Accounts, token_id \in BasicTokenIds :
        VRGenesisNFT_transfer(caller, to, token_id)

NextBasic == MintBasicStep \/ TransferBasicStep

SpecBasic == VRGenesisNFT_new /\ [][NextBasic]_vars

\* ================================================================ minimal registry
\* contracts/minimal_nft/minimal_nft/lib.rs (MinimalNft): token_count, token_owner
\* and token_uri. token_owner is the variable of that name; token_count is held in
\* the variable next_token_id and token_uri in the variable token_metadata; the
\* variables the registry does not have stay as constructed.
MinimalNft_token_count == next_token_id
MinimalNft_token_uri == token_metadata

MinimalUris == {"ipfs://test", "ipfs://other"}

\* Mutant of MinimalNft_new: token_count starts at 1.
MinimalNft_new_FromOne ==
    /\ next_token_id = 1
    /\ token_owner = <<>>
    /\ token_metadata = <<>>
    /\ balances = <<>>
    /\ owned_tokens = <<>>
    /\ approvals = <<>>
    /\ admin = None
    /\ call = [op |-> "new", path |-> "done", outcome |-> "returned"]
    /\ ret = 0
    /\ emitted = <<>>
    /\ created = <<>>

\* MinimalNft::new: token_count 0, both mappings empty.
MinimalNft_new ==
    /\ next_token_id = 0
    /\ token_owner = <<>>
    /\ token_metadata = <<>>
    /\ balances = <<>>
    /\ owned_tokens = <<>>
    /\ approvals = <<>>
    /\ admin = None
    /\ call = [op |-> "new", path |-> "done", outcome |-> "returned"]
    /\ ret = 0
    /\ emitted = <<>>
    /\ created = <<>>

\* u32::checked_add(1) on the scaled counter type, and Option::unwrap_or.
checked_add_1(n) == IF n = MinimalCountMax THEN None ELSE Some(n + 1)
unwrap_or(opt, default) == IF opt = None THEN default ELSE opt[1]

MinimalNft_owner_of(token_id) ==
    IF token_id \in DOMAIN token_owner THEN Some(token_owner[token_id]) ELSE None

MinimalNft_token_uri_of(token_id) ==
    IF token_id \in DOMAIN MinimalNft_token_uri THEN Some(MinimalNft_token_uri[token_id])
    ELSE None

MinimalNft_total_supply == MinimalNft_token_count

MinimalNft_mint(caller, uri) ==
    LET token_id == unwrap_or(checked_add_1(MinimalNft_token_count), 1) IN
        /\ call' = [op |-> "mint", path |-> "done", outcome |-> "returned"]
        /\ token_owner' = Insert(token_owner, token_id, caller)
        /\ token_metadata' = Insert(token_metadata, token_id, uri)
        /\ next_token_id' = token_id
        /\ emitted' = << TransferEvent(None, Some(caller), token_id) >>
        /\ ret' = token_id
        /\ created' = Append(created, token_id)
        /\ UNCHANGED <<balances, owned_tokens, approvals, admin>>

\* Mints while the registry has made fewer than MinimalCountMax of them: token_count
\* stays within its type.
MintMinimalStep ==
    \E caller \in Accounts, uri \in MinimalUris :
        /\ Len(created) < MinimalCountMax
        /\ MinimalNft_mint(caller, uri)

NextMinimal == MintMinimalStep

SpecMinimal == MinimalNft_new /\ [][NextMinimal]_vars

\* Mints up to two past the maximum of the counter type.
MintMinimalWrapStep ==
    \E caller \in Accounts, uri \in MinimalUris :
        /\ Len(created) < MinimalCountMax + 2
        /\ MinimalNft_mint(caller, uri)

NextMinimalWrap == MintMinimalWrapStep

SpecMinimalWrap == MinimalNft_new /\ [][NextMinimalWrap]_vars

\* ================================================================ simple registry
\* src/lib.rs (module asset_hub_nft): next_token_id, token_owner, token_uri, balances
\* and owned_tokens. token_uri is held in the variable token_metadata; the registry
\* has no approvals and no administrator, and those variables stay as constructed.
MaxSimpleTokens == 3

asset_hub_nft_token_uri == token_metadata

asset_hub_nft_new ==
    /\ next_token_id = 1
    /\ token_owner = <<>>
    /\ token_metadata = <<>>
    /\ balances = <<>>
    /\ owned_tokens = <<>>
    /\ approvals = <<>>
    /\ admin = None
    /\ call = [op |-> "new", path |-> "done", outcome |-> "returned"]
    /\ ret = 0
    /\ emitted = <<>>
    /\ created = <<>>

asset_hub_nft_balance_of(owner) == IF owner \in DOMAIN balances THEN balances[owner] ELSE 0

asset_hub_nft_owner_of(token_id) ==
    IF token_id \in DOMAIN token_owner THEN Some(token_owner[token_id]) ELSE None

asset_hub_nft_tokens_of_owner(owner) ==
    IF owner \in DOMAIN owned_tokens THEN owned_tokens[owner] ELSE <<>>

asset_hub_nft_mint(to, uri) ==
    LET token_id == next_token_id
        balance == IF to \in DOMAIN balances THEN balances[to] ELSE 0
        owned == IF to \in DOMAIN owned_tokens THEN owned_tokens[to] ELSE <<>>
        overflows == balance = U32_MAX \/ next_token_id = U32_MAX
    IN \E outcome \in Outcomes(overflows) :
        IF outcome = "trapped" THEN Trap("mint", "done", 0)
        ELSE
            /\ call' = [op |-> "mint", path |-> "done", outcome |-> outcome]
            /\ token_owner' = Insert(token_owner, token_id, to)
            /\ token_metadata' = Insert(token_metadata, token_id, uri)
            /\ balances' = Insert(balances, to, Add1(balance))
            /\ owned_tokens' = Insert(owned_tokens, to, Append(owned, token_id))
            /\ next_token_id' = Add1(next_token_id)
            /\ emitted' = << TransferEvent(None, Some(to), token_id) >>
            /\ ret' = token_id
            /\ created' = Append(created, token_id)
            /\ UNCHANGED <<approvals, admin>>

\* Mutant of asset_hub_nft_NotOwner: no caller is turned away.
asset_hub_nft_NotOwner_Never(owner, caller) == FALSE

\* `if owner != caller { return false; }`
asset_hub_nft_NotOwner(owner, caller) == owner # caller

asset_hub_nft_transfer(caller, to, token_id) ==
    IF token_id \notin DOMAIN token_owner
    THEN Reject("transfer", "no_token", FALSE)
    ELSE LET owner == token_owner[token_id] IN
        IF asset_hub_nft_NotOwner(owner, caller)
        THEN Reject("transfer", "not_owner", FALSE)
        ELSE \E outcome \in Outcomes(MoveOverflows(owner, to)) :
            IF outcome = "trapped" THEN Trap("transfer", "by_owner", FALSE)
            ELSE
                /\ call' = [op |-> "transfer", path |-> "by_owner", outcome |-> outcome]
                /\ emitted' = << TransferEvent(Some(owner), Some(to), token_id) >>
                /\ ret' = TRUE
                /\ owned_tokens' = MoveOwned(owner, to, token_id)
                /\ balances' = MoveBalance(owner, to)
                /\ token_owner' = Insert(token_owner, token_id, to)
                /\ UNCHANGED <<next_token_id, token_metadata, approvals, admin, created>>

SimpleTokenIds == 0 .. MaxSimpleTokens + 1

MintSimpleStep ==
    \E to \in Accounts, uri \in Uris :
        /\ next_token_id <= MaxSimpleTokens
        /\ asset_hub_nft_mint(to, uri)

TransferSimpleStep ==
    \E caller \in Accounts, to \in Accounts, token_id \in SimpleTokenIds :
        asset_hub_nft_transfer(caller, to, token_id)

NextSimple == MintSimpleStep \/ TransferSimpleStep

SpecSimple == asset_hub_nft_new /\ [][NextSimple]_vars

\* ================================================================ both registries
\* The cross-chain registry and the basic registry side by side, each from its own
\* constructor and with its own calls: the specification of the claims made about
\* both. The basic registry has no administrator: here its constructor leaves the
\* variable admin at NoAdmin, a name that is no account, which tells the two apart.
NoAdmin == "none"

VRGenesisNFT_new_NoAdmin ==
    /\ next_token_id = 1
    /\ token_owner = <<>>
    /\ token_metadata = <<>>
    /\ balances = <<>>
    /\ owned_tokens = <<>>
    /\ approvals = <<>>
    /\ admin = NoAdmin
    /\ call = [op |-> "new", path |-> "done", outcome |-> "returned"]
    /\ ret = 0
    /\ emitted = <<>>
    /\ created = <<>>

InitEither == Init \/ VRGenesisNFT_new_NoAdmin

CrossChainStep == admin # NoAdmin /\ NextCalls

BasicStep == admin = NoAdmin /\ NextBasic

NextEither == CrossChainStep \/ BasicStep

SpecEither == InitEither /\ [][NextEither]_vars

\* ================================================================ claims
\* The token IDs the claims range over: those any of the specifications offers.
AnyTokenId == TokenIds \cup CallTokenIds \cup IndexTokenIds \cup MetaTokenIds

\* ---------------------------------------------------------------- C1
OwnedBy(a) == {id \in DOMAIN token_owner : token_owner[id] = a}

\* C1: after any sequence of calls, for every identity a, balance_of(a) equals the
\* length of tokens_of_owner(a) and the number of token IDs whose owner is a.
C1_BalanceIndexConsistent ==
    \A a \in Accounts :
        /\ balance_of(a) = Len(tokens_of_owner(a))
        /\ balance_of(a) = Cardinality(OwnedBy(a))

\* Two tokens with one account after another account has given its token away.
C1_Witness ==
    \E a, b \in Accounts :
        /\ a # b
        /\ balance_of(a) = 2
        /\ b \in DOMAIN balances /\ balances[b] = 0
        /\ call.op \in {"transfer", "initiate_xcm_transfer"} /\ ret = TRUE

\* ---------------------------------------------------------------- C2
RECURSIVE Count(_, _)
Count(s, x) == IF s = <<>> THEN 0 ELSE (IF Head(s) = x THEN 1 ELSE 0) + Count(Tail(s), x)

\* C2: every existing token ID is once in its owner's list and in no other list,
\* and the lists hold existing IDs only.
C2_OwnershipUnique ==
    /\ \A id \in DOMAIN token_owner : \A a \in Accounts :
           Count(tokens_of_owner(a), id) = IF a = token_owner[id] THEN 1 ELSE 0
    /\ \A a \in Accounts : \A i \in 1 .. Len(tokens_of_owner(a)) :
           tokens_of_owner(a)[i] \in DOMAIN token_owner

\* A self-transfer has just returned true while the owner holds two tokens.
C2_Witness ==
    /\ call.op = "transfer" /\ ret = TRUE
    /\ emitted[1].from = emitted[1].to
    /\ Len(tokens_of_owner(emitted[1].to[1])) = 2

\* ---------------------------------------------------------------- C3
\* C3: the IDs returned by the successful creations (mint_token and administrator
\* receive_xcm_nft) are 1, 2, ..., N in call order, and the counter is N + 1, so
\* no ID is reused or skipped and a rejected receive_xcm_nft consumes none.
C3_SequentialIds ==
    /\ \A i \in 1 .. Len(created) : created[i] = i
    /\ next_token_id = Len(created) + 1
    /\ call.op \in {"mint_token", "receive_xcm_nft"} /\ call.path = "done"
           => ret = Len(created)
    /\ call.op = "receive_xcm_nft" /\ call.path = "not_admin" => ret = 0

\* A mint and an administrator receive have both created a token, and the last
\* call was a rejected receive_xcm_nft.
C3_Witness ==
    /\ Len(created) >= 2
    /\ \E i, j \in DOMAIN token_metadata :
           /\ token_metadata[i].origin_chain_id = None
           /\ token_metadata[j].origin_chain_id # None
    /\ call.op = "receive_xcm_nft" /\ call.path = "not_admin"

\* ---------------------------------------------------------------- C4
\* C4: immediately after a transfer(to, T) that returns true, by the owner or by
\* the approved delegate, is_approved(a, T) is false for every identity a.
\* (Stated per token T: if some identity is approved for T after a transfer step
\* that returned true, the step was no transfer of T.)
C4_TransferClearsApproval ==
    [][(call'.op = "transfer" /\ ret' = TRUE) =>
        \A T \in AnyTokenId :
            (\E a \in Accounts : is_approved(a, T)')
                => \A caller \in Accounts, to \in Accounts : ~transfer(caller, to, T)]_vars

\* The approved delegate has just transferred a token.
C4_Witness ==
    /\ call.op = "transfer" /\ call.path = "by_delegate" /\ ret = TRUE
    /\ \A a \in Accounts : ~is_approved(a, emitted[1].token_id)

\* ---------------------------------------------------------------- C5
\* A transfer step that reports failure, changes no table and emits nothing.
TransferRefused ==
    /\ ret' = FALSE
    /\ UNCHANGED tables
    /\ emitted' = <<>>

\* C5: transfer(to, T) on an existing token T by a caller who is neither T's owner
\* nor the identity in T's approval entry (the administrator included) returns
\* false, leaves every table unchanged and emits nothing.
\* (A transfer step is refused, or it is no call by such a caller.)
C5_UnauthorizedTransferNoOp ==
    [][call'.op = "transfer" =>
        \/ TransferRefused
        \/ \A caller \in Accounts, to \in Accounts, T \in DOMAIN token_owner :
               (token_owner[T] # caller /\ ~(T \in DOMAIN approvals /\ approvals[T] = caller))
                   => ~transfer(caller, to, T)]_vars

\* A transfer has just been refused as unauthorized while some token has a delegate.
C5_Witness ==
    /\ call.op = "transfer" /\ call.path = "not_authorized" /\ ret = FALSE
    /\ approvals # <<>>

\* ---------------------------------------------------------------- C6
\* C6: transfer(to, id) on an ID that was never created (0, or at least the
\* counter) returns false for every caller and destination and leaves every
\* table and the counter unchanged.
\* (A transfer step is refused with the counter unchanged, or it is no call on
\* such an ID.)
C6_TransferMissingTokenNoOp ==
    [][call'.op = "transfer" =>
        \/ (TransferRefused /\ UNCHANGED storage)
        \/ \A caller \in Accounts, to \in Accounts, id \in AnyTokenId :
               (id = 0 \/ id >= next_token_id) => ~transfer(caller, to, id)]_vars

\* A transfer of a missing ID has just been refused in a registry that holds tokens.
C6_Witness ==
    /\ call.op = "transfer" /\ call.path = "no_token" /\ ret = FALSE
    /\ token_owner # <<>>

\* ---------------------------------------------------------------- C7
\* The list s without the token T, the other tokens in their order.
Without(s, T) == LET Keep(t) == t # T IN SelectSeq(s, Keep)

\* What C7 says of a transfer of T from prev to `to` (prev, to and T are values).
TransferEffect(prev, to, T) ==
    /\ ret' = TRUE
    /\ DOMAIN token_owner' = DOMAIN token_owner
    /\ token_owner'[T] = to
    /\ \A a \in Accounts :
           tokens_of_owner(a)' =
               IF a = to THEN Append(Without(tokens_of_owner(a), T), T)
               ELSE IF a = prev THEN Without(tokens_of_owner(a), T)
               ELSE tokens_of_owner(a)
    /\ prev # to => /\ balance_of(prev)' = balance_of(prev) - 1
                    /\ balance_of(to)' = balance_of(to) + 1
    /\ \A a \in Accounts \ {prev, to} : balance_of(a)' = balance_of(a)
    /\ \A other \in DOMAIN token_owner \ {T} :
           /\ token_owner'[other] = token_owner[other]
           /\ (other \in DOMAIN approvals') = (other \in DOMAIN approvals)
           /\ other \in DOMAIN approvals => approvals'[other] = approvals[other]

\* C7: transfer(to, T) by T's owner or approved delegate returns true; afterwards
\* owner_of(T) = to, T is off the previous owner's list with the order of the rest
\* kept, T is at the end of to's list, the two balances move by one when to is not
\* the previous owner, and every other token keeps its owner and approval.
C7_TransferEffect ==
    [][call'.op = "transfer" =>
        \A T \in DOMAIN token_owner : \A prev \in {token_owner[T]} :
            \A caller \in {prev} \cup {a \in Accounts : T \in DOMAIN approvals /\ approvals[T] = a} :
                \A to \in Accounts :
                    transfer(caller, to, T) => TransferEffect(prev, to, T)]_vars

\* The approved delegate has just moved one of an owner's three tokens to another
\* account, leaving two on the list.
C7_Witness ==
    /\ call.op = "transfer" /\ call.path = "by_delegate" /\ ret = TRUE
    /\ emitted[1].from # emitted[1].to
    /\ Len(tokens_of_owner(emitted[1].from[1])) = 2

\* ---------------------------------------------------------------- C8
\* C8: the approval entry of a token is cleared whenever the token's ownership
\* changes: after every step that changes owner_of(T), by transfer or by
\* initiate_xcm_transfer, no approval entry for T exists.
C8_ApprovalClearedOnOwnerChange ==
    [][\A T \in DOMAIN token_owner :
           token_owner'[T] # token_owner[T] => T \notin DOMAIN approvals']_vars

\* ---------------------------------------------------------------- C9
\* What C9 says of a successful approve(to, T) (to and T are values).
ApproveEffect(to, T) ==
    /\ ret' = TRUE
    /\ DOMAIN approvals' = DOMAIN approvals \cup {T}
    /\ approvals'[T] = to
    /\ \A other \in DOMAIN approvals \ {T} : approvals'[other] = approvals[other]
    /\ UNCHANGED <<next_token_id, token_owner, token_metadata, balances, owned_tokens, admin>>
    /\ emitted' = <<>>

\* A step that reports failure, changes no storage and emits nothing.
CallRefused ==
    /\ ret' = FALSE
    /\ UNCHANGED storage
    /\ emitted' = <<>>

\* C9: approve(delegate, T) succeeds exactly when T exists and the caller is T's
\* owner; on success it sets T's approval entry to the delegate, overwriting any
\* prior one, and changes nothing else; in every other case it returns false and
\* the whole state, T's approval entry included, is unchanged.
\* (An approve step by the owner has the effect; an approve step is refused or it
\* is no call by someone else or on a missing token.)
C9_ApproveOwnerOnly ==
    [][call'.op = "approve" =>
        /\ \A T \in DOMAIN token_owner : \A owner \in {token_owner[T]} : \A to \in Accounts :
               approve(owner, to, T) => ApproveEffect(to, T)
        /\ \/ CallRefused
           \/ \A caller \in Accounts, to \in Accounts, T \in AnyTokenId :
                  (T \notin DOMAIN token_owner \/ token_owner[T] # caller)
                      => ~approve(caller, to, T)]_vars

\* An approve has just been refused while a token has a delegate.
C9_Witness ==
    /\ call.op = "approve" /\ call.path = "rejected" /\ ret = FALSE
    /\ approvals # <<>>

\* ---------------------------------------------------------------- C10
\* C10: initiate_xcm_transfer by anyone but the administrator (the token's owner
\* and its delegate included), or by the administrator on a missing token ID,
\* returns false, changes no table, status or counter and emits nothing.
\* (An initiate_xcm_transfer step is refused, or it is no such call.)
C10_InitiateRefused ==
    [][call'.op = "initiate_xcm_transfer" =>
        \/ CallRefused
        \/ \A caller \in Accounts, T \in AnyTokenId, dest_para_id \in ParaIds,
              dest_account \in DestAccounts :
               (caller # admin \/ T \notin DOMAIN token_owner)
                   => ~initiate_xcm_transfer(caller, T, dest_para_id, dest_account)]_vars

\* An initiate_xcm_transfer by a non-administrator has just been refused while a
\* token with a delegate exists.
C10_Witness ==
    /\ call.op = "initiate_xcm_transfer" /\ call.path = "not_admin" /\ ret = FALSE
    /\ approvals # <<>>

\* ---------------------------------------------------------------- C11
\* The token T is on the list s.
OnList(s, T) == \E i \in 1 .. Len(s) : s[i] = T

\* What C11 says of an initiate_xcm_transfer of T, held by prev, under the
\* administrator adm (prev, adm and T are values), the list of the previous owner
\* aside.
InitiateEffect(prev, adm, T) ==
    /\ ret' = TRUE
    /\ token_metadata'[T].xcm_status = "InProgress"
    /\ owner_of(T)' = Some(adm)
    /\ OnList(tokens_of_owner(adm)', T)
    /\ prev # adm => /\ balance_of(prev)' = balance_of(prev) - 1
                     /\ balance_of(adm)' = balance_of(adm) + 1

\* C11 as stated: initiate_xcm_transfer(T, ...) by the administrator on an existing
\* token T returns true; afterwards T's status is InProgress, owner_of(T) is the
\* administrator, T is in the administrator's list and not in the previous owner's
\* list, and the two balances move by one when the previous owner is not the
\* administrator.
C11_InitiateEffect_AsStated ==
    [][call'.op = "initiate_xcm_transfer" =>
        \A T \in DOMAIN token_owner : \A prev \in {token_owner[T]} : \A adm \in {admin} :
            \A dest_para_id \in ParaIds, dest_account \in DestAccounts :
                initiate_xcm_transfer(adm, T, dest_para_id, dest_account)
                    => /\ InitiateEffect(prev, adm, T)
                       /\ ~OnList(tokens_of_owner(prev)', T)]_vars

\* C11 amended: as above, with T off the previous owner's list when the previous
\* owner is not the administrator (a token the administrator already holds stays
\* on the administrator's list, which is the previous owner's list).
C11_InitiateEffect ==
    [][call'.op = "initiate_xcm_transfer" =>
        \A T \in DOMAIN token_owner : \A prev \in {token_owner[T]} : \A adm \in {admin} :
            \A dest_para_id \in ParaIds, dest_account \in DestAccounts :
                initiate_xcm_transfer(adm, T, dest_para_id, dest_account)
                    => /\ InitiateEffect(prev, adm, T)
                       /\ prev # adm => ~OnList(tokens_of_owner(prev)', T)]_vars

\* The administrator has just taken another account's token into escrow.
C11_Witness ==
    /\ call.op = "initiate_xcm_transfer" /\ call.path = "done" /\ ret = TRUE
    /\ emitted[1].from # admin
    /\ token_metadata[emitted[1].token_id].xcm_status = "InProgress"

\* ---------------------------------------------------------------- C12
\* C12: receive_xcm_nft by any identity other than the administrator returns 0 and
\* mutates no state: the counter, every table and every metadata record are
\* unchanged and nothing is emitted, so the next creation gets the same ID.
\* (A receive_xcm_nft step returns 0 with the storage unchanged and no event, or
\* it is no call by a non-administrator.)
C12_ReceiveRefused ==
    [][call'.op = "receive_xcm_nft" =>
        \/ (ret' = 0 /\ UNCHANGED storage /\ emitted' = <<>>)
        \/ \A caller \in Accounts \ {admin}, now \in Timestamps, to \in Accounts, uri \in Uris,
              name \in Names, model_type \in ModelTypes, properties \in Properties,
              origin_chain_id \in ParaIds :
               ~receive_xcm_nft(caller, now, to, uri, name, model_type, properties,
                                origin_chain_id)]_vars

\* A receive_xcm_nft by a non-administrator has just been refused in a registry
\* that holds a token, the counter still naming the next ID.
C12_Witness ==
    /\ call.op = "receive_xcm_nft" /\ call.path = "not_admin" /\ ret = 0
    /\ token_owner # <<>>
    /\ next_token_id = Len(created) + 1

\* ---------------------------------------------------------------- C13
\* What C13 says of a receive_xcm_nft to `to` with origin chain `origin` under the
\* administrator adm when the counter is id (all four are values).
ReceiveEffect(adm, to, origin, id) ==
    /\ ret' = id
    /\ id \notin DOMAIN token_owner
    /\ next_token_id' = id + 1
    /\ owner_of(id)' = Some(to)
    /\ token_metadata'[id].creator = adm
    /\ token_metadata'[id].origin_chain_id = Some(origin)
    /\ token_metadata'[id].xcm_status = "Completed"
    /\ balance_of(to)' = balance_of(to) + 1
    /\ tokens_of_owner(to)' = Append(tokens_of_owner(to), id)

\* C13: receive_xcm_nft by the administrator returns the current counter value as
\* a fresh ID, increments the counter by exactly 1, and creates a token whose owner
\* is the supplied destination, whose creator is the administrator, whose origin
\* chain is the supplied identifier and whose status is Completed, with the
\* destination's balance one higher and the new ID appended to its list.
C13_ReceiveEffect ==
    [][call'.op = "receive_xcm_nft" =>
        \A adm \in {admin}, id \in {next_token_id}, to \in Accounts, args \in MetaArgs :
            receive_xcm_nft(adm, args.now, to, args.metadata_uri, args.name,
                            args.model_type, args.properties, args.origin_chain_id)
                => ReceiveEffect(adm, to, args.origin_chain_id, id)]_vars

\* The administrator has just received a second token for an account that held
\* one, from the other origin chain than the first token's.
C13_Witness ==
    /\ call.op = "receive_xcm_nft" /\ call.path = "done" /\ ret = 2
    /\ Len(tokens_of_owner(token_owner[2])) = 2
    /\ token_owner[2] # admin
    /\ token_metadata[1].origin_chain_id \notin {None, token_metadata[2].origin_chain_id}

\* ---------------------------------------------------------------- C14
\* C14: the status of a token follows NotStarted -> InProgress only: Completed is
\* terminal, Completed is only ever set at the creation of a received token, and
\* no token goes from InProgress back to NotStarted.
C14_StatusMachine ==
    [][/\ \A T \in DOMAIN token_metadata : \A before \in {token_metadata[T].xcm_status} :
            /\ before = "Completed" => token_metadata'[T].xcm_status = "Completed"
            /\ before = "InProgress" => token_metadata'[T].xcm_status # "NotStarted"
            /\ token_metadata'[T].xcm_status # before
                    => before = "NotStarted" /\ token_metadata'[T].xcm_status = "InProgress"
       /\ \A T \in DOMAIN token_metadata' \ DOMAIN token_metadata :
            token_metadata'[T].xcm_status = "Completed" <=> call'.op = "receive_xcm_nft"
      ]_vars

\* ---------------------------------------------------------------- C15
\* C15: no reachable state contains a token whose status is Failed; every status
\* is one of the three the messages write.
C15_NoFailedStatus ==
    \A T \in DOMAIN token_metadata :
        /\ token_metadata[T].xcm_status # "Failed"
        /\ token_metadata[T].xcm_status \in {"NotStarted", "InProgress", "Completed"}

\* The administrator has just sent off a token that had been received from
\* another chain: its status has been written a second time.
C15_Witness ==
    /\ call.op = "initiate_xcm_transfer" /\ call.path = "done" /\ ret = TRUE
    /\ token_metadata[emitted[1].token_id].origin_chain_id # None
    /\ token_metadata[emitted[1].token_id].xcm_status = "InProgress"

\* ---------------------------------------------------------------- C16
\* C16: a token that has left via initiate_xcm_transfer stays in escrow: in every
\* reachable state every token whose status is InProgress is owned by the
\* administrator.
C16_InProgressHeldByAdmin ==
    \A T \in DOMAIN token_metadata :
        token_metadata[T].xcm_status = "InProgress" => owner_of(T) = Some(admin)

\* ---------------------------------------------------------------- C17
\* The creation fields of a metadata record: content URI, creator, creation
\* timestamp, model tag, properties.
CreationFields(m) == <<m.metadata_uri, m.creator, m.created_at, m.model_type, m.properties>>

\* C17: the creation fields of a token are set when it is created and changed by
\* no later transfer, approve, initiate_xcm_transfer, mint_token or receive_xcm_nft;
\* initiate_xcm_transfer changes only the status field of the record of the token
\* it names.
C17_CreationFieldsImmutable ==
    [][/\ \A T \in DOMAIN token_metadata :
            /\ T \in DOMAIN token_metadata'
            /\ CreationFields(token_metadata'[T]) = CreationFields(token_metadata[T])
       /\ call'.op = "initiate_xcm_transfer" =>
            \A T \in DOMAIN token_metadata : \A caller \in Accounts :
                \A dest_para_id \in ParaIds, dest_account \in DestAccounts :
                    initiate_xcm_transfer(caller, T, dest_para_id, dest_account)
                        => /\ DOMAIN token_metadata' = DOMAIN token_metadata
                           /\ \A other \in DOMAIN token_metadata \ {T} :
                                  token_metadata'[other] = token_metadata[other]
                           /\ token_metadata'[T] =
                                  [token_metadata[T] EXCEPT
                                      !.xcm_status = token_metadata'[T].xcm_status]
      ]_vars

\* The administrator has just sent off one of two tokens whose records differ in
\* every creation field; the token sent was minted by another account.
C17_Witness ==
    /\ call.op = "initiate_xcm_transfer" /\ call.path = "done" /\ ret = TRUE
    /\ DOMAIN token_metadata = {1, 2}
    /\ \A i \in 1 .. 5 :
           CreationFields(token_metadata[1])[i] # CreationFields(token_metadata[2])[i]
    /\ token_metadata[emitted[1].token_id].creator # admin
    /\ token_metadata[emitted[1].token_id].xcm_status = "InProgress"

\* ---------------------------------------------------------------- C18
\* What C18 says of a mint_token by caller to owner when the counter is id (all
\* three are values).
MintEffect(caller, owner, id) ==
    /\ ret' = id
    /\ id \notin DOMAIN token_owner
    /\ next_token_id' = id + 1
    /\ owner_of(id)' = Some(owner)
    /\ token_metadata'[id].creator = caller
    /\ token_metadata'[id].xcm_status = "NotStarted"
    /\ token_metadata'[id].origin_chain_id = None
    /\ balance_of(owner)' = balance_of(owner) + 1
    /\ tokens_of_owner(owner)' = Append(tokens_of_owner(owner), id)
    /\ \A a \in Accounts \ {owner} :
           /\ balance_of(a)' = balance_of(a)
           /\ tokens_of_owner(a)' = tokens_of_owner(a)
    /\ \A other \in DOMAIN token_owner :
           /\ token_owner'[other] = token_owner[other]
           /\ token_metadata'[other] = token_metadata[other]
    /\ approvals' = approvals

\* C18: mint_token succeeds for every caller and every destination; it returns
\* the current counter value, increments the counter by exactly 1, and creates a
\* token owned by the destination with creator = the caller, status NotStarted and
\* no origin chain, the destination's balance one higher and the new ID appended
\* to its list, leaving all other tokens untouched.
C18_MintEffect ==
    [][call'.op = "mint_token" =>
        \A id \in {next_token_id}, caller \in Accounts, owner \in Accounts, args \in MetaArgs :
            mint_token(caller, args.now, owner, args.metadata_uri, args.name,
                       args.model_type, args.properties)
                => MintEffect(caller, owner, id)]_vars

\* A second token has just been minted to an account that held the first, by a
\* caller who is neither that account nor the administrator, while the first token
\* has a delegate.
C18_Witness ==
    /\ call.op = "mint_token" /\ ret = 2
    /\ owned_tokens[token_owner[2]] = <<1, 2>>
    /\ token_metadata[2].creator \notin {token_owner[2], admin}
    /\ 1 \in DOMAIN approvals

\* ---------------------------------------------------------------- C19
\* C19: nothing is ever deleted: in every reachable state the set of IDs with an
\* owner equals the set of IDs with a metadata record and equals
\* {1, ..., counter - 1}; ID 0 never exists, so the 0 returned by a rejected
\* receive_xcm_nft names no token; and an ID that exists in one state exists in
\* every later state.
C19_NothingDeleted ==
    /\ [](/\ DOMAIN token_owner = DOMAIN token_metadata
          /\ DOMAIN token_owner = 1 .. (next_token_id - 1)
          /\ 0 \notin DOMAIN token_owner
          /\ (call.op = "receive_xcm_nft" /\ call.path = "not_admin")
                 => owner_of(ret) = None)
    /\ [][/\ DOMAIN token_owner \subseteq DOMAIN token_owner'
          /\ DOMAIN token_metadata \subseteq DOMAIN token_metadata']_vars

\* Two tokens exist, one of them sent off by the administrator and then moved on,
\* and a receive_xcm_nft has just been rejected with 0.
C19_Witness ==
    /\ DOMAIN token_owner = {1, 2}
    /\ \E T \in DOMAIN token_metadata :
           token_metadata[T].xcm_status = "InProgress" /\ token_owner[T] # admin
    /\ call.op = "receive_xcm_nft" /\ call.path = "not_admin" /\ ret = 0

\* ---------------------------------------------------------------- C20
\* C20 (basic registry): after any sequence of mint_token and transfer calls by
\* any callers, balance_of(a) is the number of token IDs whose owner is a, for
\* every identity a; transfer succeeds only for the current owner; and a failed
\* transfer (non-owner caller or missing token) changes no balance and no owner.
C20_BasicBalanceMatchesOwnership ==
    /\ [](\A a \in Accounts : balance_of(a) = Cardinality(OwnedBy(a)))
    /\ [][call'.op = "transfer" =>
            /\ ret' = FALSE => UNCHANGED <<balances, token_owner>>
            /\ \/ ret' = FALSE
               \/ \A caller \in Accounts, to \in Accounts, T \in BasicTokenIds :
                      (T \notin DOMAIN token_owner \/ token_owner[T] # caller)
                          => ~VRGenesisNFT_transfer(caller, to, T)]_vars

\* An owner of one of the two tokens has just given it to the owner of the other.
C20_Witness ==
    /\ call.op = "transfer" /\ call.path = "by_owner" /\ ret = TRUE
    /\ \E a, b \in Accounts :
           /\ a # b
           /\ emitted[1].from = Some(a) /\ emitted[1].to = Some(b)
           /\ a \in DOMAIN balances /\ balances[a] = 0
           /\ balance_of(b) = 2

C22_MinimalIdsNeverReused ==
    /\ [](\A i, j \in 1 .. Len(created) : i # j => created[i] # created[j])
    /\ [][\A T \in DOMAIN token_owner :
              /\ token_owner'[T] = token_owner[T]
              /\ MinimalNft_token_uri'[T] = MinimalNft_token_uri[T]]_vars

\* ---------------------------------------------------------------- C23
\* C23: every approval entry for a token T was set by an approve call of T's
\* current owner since T last changed owner, so that an approval granted by a
\* previous owner never authorizes a transfer.
\* (Stated per step: an approval entry for T present after a step was set in that
\* step by a successful approve, which only T's owner can make and which leaves the
\* owner as it was, or it was there before the step with the same value and T has
\* the owner it had.)
C23_ApprovalIsFromCurrentOwner ==
    [][\A T \in DOMAIN approvals' :
           \/ /\ call'.op = "approve" /\ ret' = TRUE
              /\ T \in DOMAIN token_owner /\ owner_of(T)' = owner_of(T)
           \/ /\ T \in DOMAIN approvals /\ approvals'[T] = approvals[T]
              /\ owner_of(T)' = owner_of(T)]_vars

\* ---------------------------------------------------------------- C24
\* C24: the notifications of each call: mint_token and administrator
\* receive_xcm_nft emit a mint notification and then a transfer notification with
\* from = none and to = the destination; a successful transfer emits exactly one
\* transfer notification whose from is the previous owner (not the caller, when a
\* delegate transfers) and whose to is the destination; a successful
\* initiate_xcm_transfer emits one cross-chain notification carrying the original
\* owner (not the administrator); failing calls and approve emit nothing.
C24_NotificationsPerCall ==
    [][/\ (call'.op \in {"mint_token", "receive_xcm_nft"} /\ call'.path = "done") =>
            \A id \in {ret'} : \A dest \in {token_owner'[id]} :
                /\ Len(emitted') = 2
                /\ emitted'[1].event = "NFTMinted"
                /\ emitted'[1].owner = dest /\ emitted'[1].token_id = id
                /\ emitted'[2] = [event |-> "Transfer", from |-> None, to |-> Some(dest),
                                  token_id |-> id]
       /\ call'.op = "transfer" =>
            \A T \in DOMAIN token_owner : \A prev \in {token_owner[T]} :
                \A caller \in Accounts, to \in Accounts :
                    (transfer(caller, to, T) /\ ret' = TRUE)
                        => emitted' = << [event |-> "Transfer", from |-> Some(prev),
                                          to |-> Some(to), token_id |-> T] >>
       /\ call'.op = "initiate_xcm_transfer" =>
            \A T \in DOMAIN token_owner : \A prev \in {token_owner[T]} :
                \A caller \in Accounts, dest_para_id \in ParaIds, dest_account \in DestAccounts :
                    (initiate_xcm_transfer(caller, T, dest_para_id, dest_account) /\ ret' = TRUE)
                        => emitted' = << [event |-> "XCMTransfer", from |-> prev,
                                          token_id |-> T, dest_para_id |-> dest_para_id,
                                          dest_account |-> dest_account] >>
       /\ (call'.op \in {"transfer", "initiate_xcm_transfer"} /\ ret' = FALSE)
            => emitted' = <<>>
       /\ (call'.op = "receive_xcm_nft" /\ ret' = 0) => emitted' = <<>>
       /\ call'.op = "approve" => emitted' = <<>>
      ]_vars

\* A delegate has just transferred a token: one transfer notification, whose from
\* is the account that held the token.
C24_Witness ==
    /\ call.op = "transfer" /\ call.path = "by_delegate" /\ ret = TRUE
    /\ Len(emitted) = 1
    /\ emitted[1].from # emitted[1].to

\* ---------------------------------------------------------------- C25
\* The number of times token T occurs in a list.
Occurrences(list, T) == Cardinality({i \in DOMAIN list : list[i] = T})

\* What a move of T from `holder` to `holder` leaves behind: every balance and the
\* owner as before, T once in the holder's list, at its end.
SelfMoveEffect(holder, T) ==
    /\ ret' = TRUE
    /\ \A a \in Accounts : balance_of(a)' = balance_of(a)
    /\ owner_of(T)' = Some(holder)
    /\ Occurrences(tokens_of_owner(holder)', T) = 1
    /\ tokens_of_owner(holder)' = Append(Retain(tokens_of_owner(holder), T), T)

\* C25: when source and destination coincide (the owner or a delegate transfers T
\* to T's current owner, or the administrator escrows a token the administrator
\* already owns) the call returns true, every balance and the owner are unchanged,
\* the owner's list holds T exactly once, moved to the end, and for transfer the
\* approval entry of T is cleared.
C25_SelfMove ==
    [][/\ call'.op = "transfer" =>
            \A T \in DOMAIN token_owner : \A holder \in {token_owner[T]} :
                \A caller \in Accounts :
                    ((caller = holder \/ is_approved(caller, T)) /\ transfer(caller, holder, T))
                        => (SelfMoveEffect(holder, T) /\ T \notin DOMAIN approvals')
       /\ call'.op = "initiate_xcm_transfer" =>
            \A T \in DOMAIN token_owner : \A holder \in {token_owner[T]} :
                \A dest_para_id \in ParaIds, dest_account \in DestAccounts :
                    (holder = admin /\ initiate_xcm_transfer(admin, T, dest_para_id, dest_account))
                        => SelfMoveEffect(holder, T)
      ]_vars

\* A delegate has just transferred token 1 to the account that held it together
\* with token 2: token 1 went to the end of the list.
C25_Witness ==
    /\ call.op = "transfer" /\ call.path = "by_delegate" /\ ret = TRUE
    /\ emitted[1].from = emitted[1].to /\ emitted[1].token_id = 1
    /\ owned_tokens[token_owner[1]] = <<2, 1>>
    /\ 1 \notin DOMAIN approvals

\* ---------------------------------------------------------------- C26
\* The IDs the simple registry records `a` as the owner of.
SimpleOwnedBy(a) == {T \in DOMAIN token_owner : token_owner[T] = a}

\* C26: in the simple registry, after any sequence of mint and transfer calls by
\* any callers: owner_of(T) changes only in a transfer call whose caller is T's
\* owner at that moment; every failed transfer leaves all tables unchanged; and
\* for every account a, balance_of(a) equals the length of tokens_of_owner(a) and
\* the number of IDs owned by a, with no ID listed twice.
C26_SimpleRegistry ==
    /\ [](\A a \in Accounts :
             /\ asset_hub_nft_balance_of(a) = Len(asset_hub_nft_tokens_of_owner(a))
             /\ asset_hub_nft_balance_of(a) = Cardinality(SimpleOwnedBy(a))
             /\ \A i, j \in DOMAIN asset_hub_nft_tokens_of_owner(a) :
                    i # j => asset_hub_nft_tokens_of_owner(a)[i]
                                # asset_hub_nft_tokens_of_owner(a)[j]
             /\ \A i \in DOMAIN asset_hub_nft_tokens_of_owner(a) :
                    asset_hub_nft_tokens_of_owner(a)[i] \in SimpleOwnedBy(a))
    /\ [][/\ \A T \in DOMAIN token_owner : \A holder \in {token_owner[T]} :
                  asset_hub_nft_owner_of(T)' # Some(holder)
                      => /\ call'.op = "transfer" /\ ret' = TRUE
                         /\ \E to \in Accounts : asset_hub_nft_transfer(holder, to, T)
                         /\ \A caller \in Accounts \ {holder}, to \in Accounts :
                              ~asset_hub_nft_transfer(caller, to, T)
          /\ (call'.op = "transfer" /\ ret' = FALSE) => UNCHANGED tables
         ]_vars

\* The owner of token 1 has just transferred it to an account that now holds two
\* tokens, the moved one last.
C26_Witness ==
    /\ call.op = "transfer" /\ ret = TRUE
    /\ emitted[1].token_id = 1 /\ emitted[1].from # emitted[1].to
    /\ Len(owned_tokens[token_owner[1]]) = 2
    /\ owned_tokens[token_owner[1]][2] = 1

\* ---------------------------------------------------------------- C27
\* The transfer notifications for token T among the events of the last call.
TransfersOf(events, T) ==
    SelectSeq(events, LAMBDA e : e.event = "Transfer" /\ e.token_id = T)

\* C27: the transfer-notification log determines ownership: for every existing
\* token T, owner_of(T) equals the `to` field of the most recent transfer
\* notification emitted for T. Stated call by call: the last transfer
\* notification a call emits for T names the owner T has after the call, and a
\* call that emits none for T leaves T, already existing, with its owner.
C27_TransferLogDeterminesOwner ==
    [][\A T \in DOMAIN token_owner' :
           IF TransfersOf(emitted', T) # <<>>
           THEN TransfersOf(emitted', T)[Len(TransfersOf(emitted', T))].to = owner_of(T)'
           ELSE T \in DOMAIN token_owner /\ owner_of(T)' = owner_of(T)]_vars

\* ---------------------------------------------------------------- C28
\* C28: in the cross-chain registry and in the basic registry the balance
\* decrement never underflows: whenever transfer or initiate_xcm_transfer reaches
\* its `balance -= 1` step for the token's current owner, that owner has a balance
\* entry and it is at least 1. The owner of every token has such an entry in
\* every state, and every call that moves a token finds it and subtracts 1.
C28_DecrementNeverUnderflows ==
    /\ [](\A T \in DOMAIN token_owner :
             token_owner[T] \in DOMAIN balances /\ balances[token_owner[T]] >= 1)
    /\ [][\A T \in DOMAIN token_owner : \A holder \in {token_owner[T]} :
              (/\ call'.op \in {"transfer", "initiate_xcm_transfer"}
               /\ ret' = TRUE
               /\ emitted'[1].token_id = T)
                  => /\ holder \in DOMAIN balances
                     /\ balances[holder] >= 1
                     /\ call'.outcome = "returned"
                     /\ owner_of(T)' # Some(holder)
                            => balance_of(holder)' = balances[holder] - 1]_vars

\* A transfer in the cross-chain registry has just taken the only token of its
\* owner: the decrement went from 1 to 0.
C28_Witness ==
    /\ admin # NoAdmin
    /\ call.op = "transfer" /\ ret = TRUE
    /\ emitted[1].from # emitted[1].to
    /\ emitted[1].from[1] \in DOMAIN balances
    /\ balances[emitted[1].from[1]] = 0

====
